---- MODULE Spec2Model ----
(***************************************************************************)
(* A model of s3tf's Provider (provider.go): the navigation tree of Nodes, *)
(* the List / Menu / Detail event handlers, and the remote calls of s3.go  *)
(* as far as the Provider observes them (their results and their exits).   *)
(***************************************************************************)
EXTENDS Integers, Sequences, FiniteSets, TLC

VARIABLES
    nodes,       \* the Nodes allocated so far, by address (1 is the root)
    navigator,   \* Provider.navigator: the address of the current Node
    bucket,      \* Provider.bucket
    status,      \* Provider.status: "List", "Menu" or "Detail"
    listView,    \* Provider.listView: objects, key and cursor row
    statusMsg,   \* Provider.statusView.msg, as the fragments that are joined
    menuCursor,  \* Provider.menuView: the highlighted row
    detailView,  \* Provider.detailView: obj, key and scroll offset
    proc,        \* the process: "running", "returned", "done", "exited", "fatal", "panicked"
    quitter,     \* the goroutine of the quit branch: "none", "spawned", "sleeping", "gone"
    interrupt,   \* an EventInterrupt is waiting for PollEvent
    ev,          \* the step taken last (the handler branch that ran)
    calls,       \* the calls to s3.go made by the step taken last
    steps        \* the number of steps taken so far (bounds the run)

vars == <<nodes, navigator, bucket, status, listView, statusMsg, menuCursor,
          detailView, proc, quitter, interrupt, ev, calls, steps>>

nav == <<nodes, navigator, bucket, listView>>

-----------------------------------------------------------------------------
(* Bounds of the model. *)

MaxNodes == 3

MaxSteps == 7

(* What the remote store can answer. *)
RemoteBuckets == {<<>>, <<"a">>, <<"a", "b">>}
RemotePrefixes == {<<>>, <<"d/">>}
RemoteContents == {<<>>, <<"f">>}
RemoteResults == {"ok", "canceled", "failed"}

-----------------------------------------------------------------------------
(* S3Object and the listings of s3.go. *)

NilNode == 0

S3Object(t, n) == [ObjType |-> t, Name |-> n]

ListBuckets(names) == [i \in 1..Len(names) |-> S3Object("Bucket", names[i])]

(* ListObjects without the ".." entry in front. *)
ListObjectsNoUpDir(prefixes, contents) ==
    [i \in 1..Len(prefixes) |-> S3Object("Dir", prefixes[i])]
        \o [i \in 1..Len(contents) |-> S3Object("Object", contents[i])]

ListObjects(prefixes, contents) ==
    <<S3Object("PreDir", "..")>>
        \o [i \in 1..Len(prefixes) |-> S3Object("Dir", prefixes[i])]
        \o [i \in 1..Len(contents) |-> S3Object("Object", contents[i])]

BucketListings == {ListBuckets(b) : b \in RemoteBuckets}

ObjectListings == {ListObjects(p, c) : p \in RemotePrefixes, c \in RemoteContents}

Call(fn, b, k, res) == [fn |-> fn, bucket |-> b, key |-> k, result |-> res]

-----------------------------------------------------------------------------
(* Node. *)

EmptyChildren == [k \in {} |-> NilNode]

NewNode(key, parent, objects) ==
    [key |-> key, parent |-> parent, children |-> EmptyChildren,
     objects |-> objects, position |-> 0]

IsRoot(n) == nodes[n].parent = NilNode

IsBucketRoot(n) == nodes[nodes[n].parent].parent = NilNode

IsExistChildren(n, key) == key \in DOMAIN nodes[n].children

GetChild(n, key) == nodes[n].children[key]

AddChild(n, key, child) == [nodes EXCEPT ![n].children = (key :> child) @@ @]

-----------------------------------------------------------------------------
(* ListView, MenuView, DetailView. *)

Min(a, b) == IF a < b THEN a ELSE b

Max(a, b) == IF a > b THEN a ELSE b

MoveCursor(objects, cursor, delta) ==
    IF Len(objects) = 0 THEN cursor
    ELSE Max(0, Min(cursor + delta, Len(objects) - 1))

ListViewDown == MoveCursor(listView.objects, listView.cursor, 1)

ListViewUp == MoveCursor(listView.objects, listView.cursor, -1)

updateList(node) ==
    [objects |-> node.objects, key |-> node.key, cursor |-> node.position]

HasCursorObject ==
    /\ listView.cursor >= 0
    /\ listView.cursor < Len(listView.objects)

getCursorObject == listView.objects[listView.cursor + 1]

MenuItems == <<"download", "open", "edit">>

MenuViewDown == (menuCursor + 1) % Len(MenuItems)

MenuViewUp == (menuCursor + Len(MenuItems) - 1) % Len(MenuItems)

getCursorItem == MenuItems[menuCursor + 1]

(* The nil metadata of a DetailView that has captured nothing. *)
NoMetadata == <<>>

NoDetail == [obj |-> NoMetadata, key |-> "", scroll |-> 0]

-----------------------------------------------------------------------------
(* The state after NewProvider: the root Node holds a bucket listing that  *)
(* succeeded (ListBuckets exits the process otherwise).                    *)

Init ==
    /\ \E objects \in BucketListings :
          /\ nodes = <<NewNode("", NilNode, objects)>>
          /\ listView = [objects |-> objects, key |-> "", cursor |-> 0]
    /\ navigator = 1
    /\ bucket = ""
    /\ status = "List"
    /\ statusMsg = <<>>
    /\ menuCursor = 0
    /\ detailView = NoDetail
    /\ proc = "running"
    /\ quitter = "none"
    /\ interrupt = FALSE
    /\ ev = ""
    /\ calls = <<>>
    /\ steps = 0

-----------------------------------------------------------------------------
(* The navigation steps of Provider. Each states nodes', navigator' and     *)
(* listView'.                                                              *)

(* moveNext rewinding the cached child's cursor. *)
moveNextRewind(key) ==
    LET child == GetChild(navigator, key)
    IN  /\ navigator' = child
        /\ listView' = [updateList(nodes[child]) EXCEPT !.cursor = 0]
        /\ nodes' = [nodes EXCEPT ![child].position = 0]

moveNext(key) ==
    LET child == GetChild(navigator, key)
    IN  /\ navigator' = child
        /\ listView' = updateList(nodes[child])
        /\ nodes' = nodes

(* loadNext with the child linked to the root instead of the current Node. *)
loadNextRootParent(key, objects) ==
    LET child == Len(nodes) + 1
    IN  /\ nodes' = Append(AddChild(navigator, key, child), NewNode(key, 1, objects))
        /\ navigator' = child
        /\ listView' = updateList(NewNode(key, 1, objects))

loadNext(key, objects) ==
    LET parent == navigator
        child == Len(nodes) + 1
    IN  /\ nodes' = Append(AddChild(parent, key, child), NewNode(key, parent, objects))
        /\ navigator' = child
        /\ listView' = updateList(NewNode(key, parent, objects))

(* loadPrev on the root takes the nil parent and dereferences it. *)
loadPrev ==
    LET parent == nodes[navigator].parent
    IN  /\ navigator' = parent
        /\ nodes' = nodes
        /\ IF parent = NilNode
           THEN proc' = "panicked" /\ listView' = listView
           ELSE proc' = proc /\ listView' = updateList(nodes[parent])

(* A handler that dereferences a missing cursor object. *)
panic ==
    /\ proc' = "panicked"
    /\ calls' = <<>>
    /\ UNCHANGED <<nodes, navigator, bucket, listView, statusMsg>>

(* os.Exit(1) of s3.go after a failed call, seen from the handler. *)
exitAfter(call) ==
    /\ proc' = "exited"
    /\ calls' = <<call>>
    /\ UNCHANGED <<nodes, navigator, listView, statusMsg>>

(* showBucket naming the bucket only when it lists it. *)
showBucketLazy(obj, res, objects) ==
    LET bucketName == obj.Name
    IN  IF IsExistChildren(navigator, bucketName)
        THEN /\ moveNext(bucketName)
             /\ calls' = <<>>
             /\ UNCHANGED <<bucket, proc, statusMsg>>
        ELSE /\ bucket' = bucketName
             /\ IF res = "ok"
                THEN /\ loadNext(bucketName, objects)
                     /\ calls' = <<Call("ListObjects", bucketName, "", res)>>
                     /\ UNCHANGED <<proc, statusMsg>>
                ELSE exitAfter(Call("ListObjects", bucketName, "", res))

showBucket(obj, res, objects) ==
    LET bucketName == obj.Name
    IN  /\ bucket' = bucketName
        /\ IF IsExistChildren(navigator, bucketName)
           THEN /\ moveNext(bucketName)
                /\ calls' = <<>>
                /\ UNCHANGED <<proc, statusMsg>>
           ELSE IF res = "ok"
                THEN /\ loadNext(bucketName, objects)
                     /\ calls' = <<Call("ListObjects", bucketName, "", res)>>
                     /\ UNCHANGED <<proc, statusMsg>>
                ELSE exitAfter(Call("ListObjects", bucketName, "", res))

(* showDir without the IsExistChildren test: every activation lists again. *)
showDirNoCache(obj, res, objects) ==
    LET bucketName == bucket
        objectKey == obj.Name
    IN  /\ bucket' = bucket
        /\ IF res = "ok"
           THEN /\ loadNext(objectKey, objects)
                /\ calls' = <<Call("ListObjects", bucketName, objectKey, res)>>
                /\ UNCHANGED <<proc, statusMsg>>
           ELSE exitAfter(Call("ListObjects", bucketName, objectKey, res))

showDir(obj, res, objects) ==
    LET bucketName == bucket
        objectKey == obj.Name
    IN  /\ bucket' = bucket
        /\ IF IsExistChildren(navigator, objectKey)
           THEN /\ moveNext(objectKey)
                /\ calls' = <<>>
                /\ UNCHANGED <<proc, statusMsg>>
           ELSE IF res = "ok"
                THEN /\ loadNext(objectKey, objects)
                     /\ calls' = <<Call("ListObjects", bucketName, objectKey, res)>>
                     /\ UNCHANGED <<proc, statusMsg>>
                ELSE exitAfter(Call("ListObjects", bucketName, objectKey, res))

show(obj, res, objects) ==
    CASE obj.ObjType = "Bucket" -> showBucket(obj, res, objects)
      [] obj.ObjType = "Dir" -> showDir(obj, res, objects)
      [] obj.ObjType = "PreDir" ->
            /\ loadPrev
            /\ calls' = <<>>
            /\ UNCHANGED <<bucket, statusMsg>>
      [] obj.ObjType = "Object" ->
            /\ calls' = <<>>
            /\ UNCHANGED <<nodes, navigator, bucket, listView, statusMsg, proc>>

(* reload: ListBuckets on the root, ListObjects below it; the new listing   *)
(* is stored in the Node and in the ListView, and nothing else is touched. *)
(* A reload that asks for the current key at every depth below the root. *)
reloadCallByKey ==
    IF IsRoot(navigator) THEN [fn |-> "ListBuckets", bucket |-> "", key |-> ""]
    ELSE [fn |-> "ListObjects", bucket |-> bucket, key |-> nodes[navigator].key]

reloadCall ==
    IF IsRoot(navigator) THEN [fn |-> "ListBuckets", bucket |-> "", key |-> ""]
    ELSE IF IsBucketRoot(navigator)
         THEN [fn |-> "ListObjects", bucket |-> bucket, key |-> ""]
         ELSE [fn |-> "ListObjects", bucket |-> bucket, key |-> nodes[navigator].key]

(* A reload that starts the current Node afresh, children included. *)
reloadFresh(res, objects) ==
    LET c == reloadCall
        call == Call(c.fn, c.bucket, c.key, res)
    IN  /\ bucket' = bucket
        /\ IF res = "ok"
           THEN /\ nodes' = [nodes EXCEPT ![navigator].objects = objects,
                                          ![navigator].children = EmptyChildren]
                /\ listView' = [listView EXCEPT !.objects = objects]
                /\ calls' = <<call>>
                /\ UNCHANGED <<navigator, proc, statusMsg>>
           ELSE exitAfter(call)

reload(res, objects) ==
    LET c == reloadCall
        call == Call(c.fn, c.bucket, c.key, res)
    IN  /\ bucket' = bucket
        /\ IF res = "ok"
           THEN /\ nodes' = [nodes EXCEPT ![navigator].objects = objects]
                /\ listView' = [listView EXCEPT !.objects = objects]
                /\ calls' = <<call>>
                /\ UNCHANGED <<navigator, proc, statusMsg>>
           ELSE exitAfter(call)

-----------------------------------------------------------------------------
(* download, open, edit. createOk: os.Create of the local file succeeded;   *)
(* res: how DownloadObject ended ("nofile": its own os.Create failed).     *)

DownloadResults == RemoteResults \cup {"nofile"}

Path(bucketName, name) == <<"s3://", bucketName, "/", name>>

(* DownloadObject returns only when the download succeeded. *)
DownloadObject(bucketName, name, res, msg) ==
    /\ calls' = <<Call("DownloadObject", bucketName, name, res)>>
    /\ IF res = "ok"
       THEN proc' = proc /\ statusMsg' = msg
       ELSE /\ proc' = (IF res = "nofile" THEN "fatal" ELSE "exited")
            /\ statusMsg' = statusMsg

fatal ==
    /\ proc' = "fatal"
    /\ calls' = <<>>
    /\ statusMsg' = statusMsg

invalidType ==
    /\ calls' = <<>>
    /\ UNCHANGED <<proc, statusMsg>>

(* download with the bucket and the key swapped in the call and the path. *)
downloadSwapped(createOk, res) ==
    IF ~HasCursorObject THEN panic
    ELSE LET obj == getCursorObject
             bucketName == bucket
         IN  /\ UNCHANGED <<nodes, navigator, bucket, listView>>
             /\ IF obj.ObjType = "Object"
                THEN IF ~createOk THEN fatal
                     ELSE DownloadObject(obj.Name, bucketName, res,
                              <<"download complate. ">> \o Path(obj.Name, bucketName))
                ELSE invalidType

download(createOk, res) ==
    IF ~HasCursorObject THEN panic
    ELSE LET obj == getCursorObject
             bucketName == bucket
         IN  /\ UNCHANGED <<nodes, navigator, bucket, listView>>
             /\ IF obj.ObjType = "Object"
                THEN IF ~createOk THEN fatal
                     ELSE DownloadObject(bucketName, obj.Name, res,
                              <<"download complate. ">> \o Path(bucketName, obj.Name))
                ELSE invalidType

open(createOk, res, openOk) ==
    IF ~HasCursorObject THEN panic
    ELSE LET obj == getCursorObject
             bucketName == bucket
         IN  /\ UNCHANGED <<nodes, navigator, bucket, listView>>
             /\ IF obj.ObjType = "Object"
                THEN IF ~createOk THEN fatal
                     ELSE IF res = "ok" /\ ~openOk
                          THEN /\ calls' = <<Call("DownloadObject", bucketName, obj.Name, res)>>
                               /\ proc' = "fatal"
                               /\ statusMsg' = statusMsg
                          ELSE DownloadObject(bucketName, obj.Name, res,
                                   <<"open. ">> \o Path(bucketName, obj.Name))
                ELSE invalidType

(* edit that rewinds the list cursor when the terminal is set up again. *)
editRewind(createOk, res) ==
    IF ~HasCursorObject THEN panic
    ELSE LET obj == getCursorObject
             bucketName == bucket
         IN  /\ UNCHANGED <<nodes, navigator, bucket>>
             /\ IF obj.ObjType = "Object"
                THEN IF ~createOk THEN fatal /\ listView' = listView
                     ELSE /\ DownloadObject(bucketName, obj.Name, res,
                                 <<"edit. ">> \o Path(bucketName, obj.Name))
                          /\ listView' = [listView EXCEPT !.cursor = 0]
                ELSE invalidType /\ listView' = listView

edit(createOk, res) ==
    IF ~HasCursorObject THEN panic
    ELSE LET obj == getCursorObject
             bucketName == bucket
         IN  /\ UNCHANGED <<nodes, navigator, bucket, listView>>
             /\ IF obj.ObjType = "Object"
                THEN IF ~createOk THEN fatal
                     ELSE DownloadObject(bucketName, obj.Name, res,
                              <<"edit. ">> \o Path(bucketName, obj.Name))
                ELSE invalidType

(* detail: the mode is set first, then the metadata is fetched. *)
MaxScroll == 1

Detail(bucketName, name, res) ==
    IF res = "ok" THEN <<bucketName, name>> ELSE NoMetadata

detail(obj, res) ==
    /\ status' = "Detail"
    /\ detailView' = [detailView EXCEPT !.obj = Detail(bucket, obj.Name, res),
                                        !.key = obj.Name]
    /\ calls' = <<Call("Detail", bucket, obj.Name, res)>>

DetailViewDown == Min(detailView.scroll + 1, MaxScroll)

DetailViewUp == Max(detailView.scroll - 1, 0)

-----------------------------------------------------------------------------
(* listEvent: one action per branch, taken while the Loop is running and    *)
(* the status is StateList.                                                *)

(* Every step counts towards MaxSteps. *)
Tick == steps < MaxSteps /\ steps' = steps + 1

InList == proc = "running" /\ status = "List"

views == <<status, menuCursor, detailView, quitter, interrupt>>

Quit ==
    /\ Tick
    /\ InList
    /\ quitter = "none"
    /\ quitter' = "spawned"
    /\ ev' = "quit"
    /\ calls' = <<>>
    /\ UNCHANGED <<nodes, navigator, bucket, listView, statusMsg, proc,
                   status, menuCursor, detailView, interrupt>>

ListDown ==
    /\ Tick
    /\ InList
    /\ ev' = "down"
    /\ nodes' = [nodes EXCEPT ![navigator].position = ListViewDown]
    /\ listView' = [listView EXCEPT !.cursor = ListViewDown]
    /\ calls' = <<>>
    /\ UNCHANGED <<navigator, bucket, statusMsg, proc>>
    /\ UNCHANGED views

ListUp ==
    /\ Tick
    /\ InList
    /\ ev' = "up"
    /\ nodes' = [nodes EXCEPT ![navigator].position = ListViewUp]
    /\ listView' = [listView EXCEPT !.cursor = ListViewUp]
    /\ calls' = <<>>
    /\ UNCHANGED <<navigator, bucket, statusMsg, proc>>
    /\ UNCHANGED views

Menu ==
    /\ Tick
    /\ InList
    /\ ev' = "menu"
    /\ status' = "Menu"
    /\ calls' = <<>>
    /\ UNCHANGED <<nodes, navigator, bucket, listView, statusMsg, proc,
                   menuCursor, detailView, quitter, interrupt>>

DetailOpen(res) ==
    /\ Tick
    /\ InList
    /\ ev' = "detail"
    /\ IF ~HasCursorObject
       THEN panic /\ UNCHANGED <<status, detailView>>
       ELSE /\ detail(getCursorObject, res)
            /\ UNCHANGED <<nodes, navigator, bucket, listView, statusMsg, proc>>
    /\ UNCHANGED <<menuCursor, quitter, interrupt>>

(* The go-back branch without the IsRoot guard. *)
BackUnguarded ==
    /\ Tick
    /\ InList
    /\ ev' = "back"
    /\ loadPrev
    /\ calls' = <<>>
    /\ UNCHANGED <<bucket, statusMsg>>
    /\ UNCHANGED views

Back ==
    /\ Tick
    /\ InList
    /\ ev' = "back"
    /\ IF ~IsRoot(navigator)
       THEN loadPrev
       ELSE UNCHANGED <<nodes, navigator, listView, proc>>
    /\ calls' = <<>>
    /\ UNCHANGED <<bucket, statusMsg>>
    /\ UNCHANGED views

Reload(res, objects) ==
    /\ Tick
    /\ InList
    /\ ev' = "reload"
    /\ objects \in (IF IsRoot(navigator) THEN BucketListings ELSE ObjectListings)
    /\ reload(res, objects)
    /\ UNCHANGED views

Download(createOk, res) ==
    /\ Tick
    /\ InList
    /\ ev' = "download"
    /\ download(createOk, res)
    /\ UNCHANGED views

Open(createOk, res, openOk) ==
    /\ Tick
    /\ InList
    /\ ev' = "open"
    /\ open(createOk, res, openOk)
    /\ UNCHANGED views

Edit(createOk, res) ==
    /\ Tick
    /\ InList
    /\ ev' = "edit"
    /\ edit(createOk, res)
    /\ UNCHANGED views

(* A descent that allocates a Node is taken only below MaxNodes. *)
CanAllocate(obj) ==
    \/ obj.ObjType \notin {"Bucket", "Dir"}
    \/ IsExistChildren(navigator, obj.Name)
    \/ Len(nodes) < MaxNodes

Show(res, objects) ==
    /\ Tick
    /\ InList
    /\ ev' = "show"
    /\ IF ~HasCursorObject
       THEN panic
       ELSE /\ CanAllocate(getCursorObject)
            /\ show(getCursorObject, res, objects)
    /\ UNCHANGED views

-----------------------------------------------------------------------------
(* menuEvent and detailEvent. *)

InMenu == proc = "running" /\ status = "Menu"

InDetail == proc = "running" /\ status = "Detail"

(* The menu's move-down moving the list cursor as well. *)
MenuDownMovesList ==
    /\ Tick
    /\ InMenu
    /\ ev' = "menuDown"
    /\ menuCursor' = MenuViewDown
    /\ nodes' = [nodes EXCEPT ![navigator].position = ListViewDown]
    /\ listView' = [listView EXCEPT !.cursor = ListViewDown]
    /\ calls' = <<>>
    /\ UNCHANGED <<navigator, bucket, statusMsg, proc,
                   status, detailView, quitter, interrupt>>

MenuDown ==
    /\ Tick
    /\ InMenu
    /\ ev' = "menuDown"
    /\ menuCursor' = MenuViewDown
    /\ calls' = <<>>
    /\ UNCHANGED <<nodes, navigator, bucket, listView, statusMsg, proc,
                   status, detailView, quitter, interrupt>>

MenuUp ==
    /\ Tick
    /\ InMenu
    /\ ev' = "menuUp"
    /\ menuCursor' = MenuViewUp
    /\ calls' = <<>>
    /\ UNCHANGED <<nodes, navigator, bucket, listView, statusMsg, proc,
                   status, detailView, quitter, interrupt>>

MenuCancel ==
    /\ Tick
    /\ InMenu
    /\ ev' = "menuCancel"
    /\ status' = "List"
    /\ calls' = <<>>
    /\ UNCHANGED <<nodes, navigator, bucket, listView, statusMsg, proc,
                   menuCursor, detailView, quitter, interrupt>>

(* The status returns to StateList only if the command returned. *)
MenuEnter(createOk, res, openOk) ==
    /\ Tick
    /\ InMenu
    /\ ev' = "menuEnter"
    /\ CASE getCursorItem = "download" -> download(createOk, res)
         [] getCursorItem = "open" -> open(createOk, res, openOk)
         [] getCursorItem = "edit" -> edit(createOk, res)
    /\ status' = (IF proc' = "running" THEN "List" ELSE status)
    /\ UNCHANGED <<menuCursor, detailView, quitter, interrupt>>

DetailDown ==
    /\ Tick
    /\ InDetail
    /\ ev' = "detailDown"
    /\ detailView' = [detailView EXCEPT !.scroll = DetailViewDown]
    /\ calls' = <<>>
    /\ UNCHANGED <<nodes, navigator, bucket, listView, statusMsg, proc,
                   status, menuCursor, quitter, interrupt>>

DetailUp ==
    /\ Tick
    /\ InDetail
    /\ ev' = "detailUp"
    /\ detailView' = [detailView EXCEPT !.scroll = DetailViewUp]
    /\ calls' = <<>>
    /\ UNCHANGED <<nodes, navigator, bucket, listView, statusMsg, proc,
                   status, menuCursor, quitter, interrupt>>

(* A cancel in Detail mode that opens the menu. *)
DetailCancelToMenu ==
    /\ Tick
    /\ InDetail
    /\ ev' = "detailCancel"
    /\ status' = "Menu"
    /\ calls' = <<>>
    /\ UNCHANGED <<nodes, navigator, bucket, listView, statusMsg, proc,
                   menuCursor, detailView, quitter, interrupt>>

DetailCancel ==
    /\ Tick
    /\ InDetail
    /\ ev' = "detailCancel"
    /\ status' = "List"
    /\ calls' = <<>>
    /\ UNCHANGED <<nodes, navigator, bucket, listView, statusMsg, proc,
                   menuCursor, detailView, quitter, interrupt>>

-----------------------------------------------------------------------------
(* The goroutine of the quit branch, and the Loop's return.                *)

QuitInterrupt ==
    /\ quitter = "spawned"
    /\ proc \in {"running", "returned"}
    /\ quitter' = "sleeping"
    /\ interrupt' = TRUE
    /\ ev' = "go"
    /\ calls' = <<>>
    /\ UNCHANGED <<steps, nodes, navigator, bucket, listView, statusMsg, proc,
                   status, menuCursor, detailView>>

QuitPanic ==
    /\ quitter = "sleeping"
    /\ proc \in {"running", "returned"}
    /\ quitter' = "gone"
    /\ proc' = "panicked"
    /\ ev' = "go"
    /\ calls' = <<>>
    /\ UNCHANGED <<steps, nodes, navigator, bucket, listView, statusMsg,
                   status, menuCursor, detailView, interrupt>>

(* A Loop that returns whether or not an interrupt was raised. *)
LoopReturnsUnasked ==
    /\ proc = "running"
    /\ interrupt' = FALSE
    /\ proc' = "returned"
    /\ ev' = "interrupt"
    /\ calls' = <<>>
    /\ UNCHANGED <<steps, nodes, navigator, bucket, listView, statusMsg,
                   status, menuCursor, detailView, quitter>>

LoopInterrupt ==
    /\ proc = "running"
    /\ interrupt
    /\ interrupt' = FALSE
    /\ proc' = "returned"
    /\ ev' = "interrupt"
    /\ calls' = <<>>
    /\ UNCHANGED <<steps, nodes, navigator, bucket, listView, statusMsg,
                   status, menuCursor, detailView, quitter>>

MainExit ==
    /\ proc = "returned"
    /\ proc' = "done"
    /\ ev' = "exit"
    /\ calls' = <<>>
    /\ UNCHANGED <<steps, nodes, navigator, bucket, listView, statusMsg,
                   status, menuCursor, detailView, quitter, interrupt>>

-----------------------------------------------------------------------------

Next ==
    \/ Quit
    \/ ListDown
    \/ ListUp
    \/ Menu
    \/ \E res \in RemoteResults : DetailOpen(res)
    \/ Back
    \/ \E res \in RemoteResults, objects \in BucketListings \cup ObjectListings :
          Reload(res, objects)
    \/ \E createOk \in BOOLEAN, res \in DownloadResults : Download(createOk, res)
    \/ \E createOk \in BOOLEAN, res \in DownloadResults, openOk \in BOOLEAN :
          Open(createOk, res, openOk)
    \/ \E createOk \in BOOLEAN, res \in DownloadResults : Edit(createOk, res)
    \/ \E res \in RemoteResults, objects \in ObjectListings : Show(res, objects)
    \/ MenuDown
    \/ MenuUp
    \/ MenuCancel
    \/ \E createOk \in BOOLEAN, res \in DownloadResults, openOk \in BOOLEAN :
          MenuEnter(createOk, res, openOk)
    \/ DetailDown
    \/ DetailUp
    \/ DetailCancel
    \/ QuitInterrupt
    \/ QuitPanic
    \/ LoopInterrupt
    \/ MainExit

Spec == Init /\ [][Next]_vars

(* The Go scheduler runs the quit goroutine, and Loop, blocked in          *)
(* PollEvent, is woken by the interrupt.                                   *)
FairSpec == Spec /\ WF_vars(QuitInterrupt) /\ WF_vars(LoopInterrupt)

-----------------------------------------------------------------------------
(* What a step did, read from the state before it and the branch it took.  *)

NodeIds == 1..Len(nodes)

Cursor == nodes[navigator].position

Entries == nodes[navigator].objects

(* The step activated the entry under the cursor, an entry of type t. *)
Activated(t) ==
    /\ InList
    /\ ev' = "show"
    /\ HasCursorObject
    /\ getCursorObject.ObjType = t

(* The step activated a Bucket or Dir entry and the handler returned. *)
Descended ==
    /\ Activated("Bucket") \/ Activated("Dir")
    /\ proc' = "running"

(* The step took loadPrev: go-back below the root, or a PreDir activated. *)
Ascended ==
    \/ InList /\ ev' = "back" /\ ~IsRoot(navigator)
    \/ Activated("PreDir")

ParentLinks ==
    \A n \in NodeIds : \A k \in DOMAIN nodes[n].children :
        /\ nodes[n].children[k] \in NodeIds
        /\ nodes[nodes[n].children[k]].parent = n

(* C1: descending from the current Node n into a Bucket or Dir key k, by   *)
(* moveNext or by loadNext, makes n's child under k the current Node, whose *)
(* parent is n; every cached child's parent is the Node that holds it; and *)
(* loadPrev makes the parent of the current Node the current Node. So       *)
(* descending into k and ascending again ends at n.                        *)
C1_RoundTrip ==
    [][/\ Descended =>
            /\ navigator' \in 1..Len(nodes')
            /\ navigator' = nodes'[navigator].children[getCursorObject.Name]
            /\ nodes'[navigator'].parent = navigator
       /\ Ascended => navigator' = nodes[navigator].parent
       /\ ParentLinks']_vars

(* A Node below the root is current again after go-back from a child of it. *)
C1_Witness ==
    /\ ev = "back"
    /\ proc = "running"
    /\ navigator # 1
    /\ DOMAIN nodes[navigator].children # {}

(* The step activated a Bucket or Dir key that the current Node has cached. *)
CacheHit ==
    /\ Activated("Bucket") \/ Activated("Dir")
    /\ IsExistChildren(navigator, getCursorObject.Name)

(* C2: activating a cached Bucket or Dir key makes that cached child the   *)
(* current Node, with no call to s3.go and no Node changed; a descent calls *)
(* ListObjects only for a key that is not cached, once, and caches it when *)
(* the call succeeds; and no step removes or rebinds a cached key.         *)
C2_CacheReuse ==
    [][/\ CacheHit =>
            /\ navigator' = GetChild(navigator, getCursorObject.Name)
            /\ nodes' = nodes
            /\ calls' = <<>>
            /\ proc' = proc
       /\ (ev' = "show" /\ calls' # <<>>) =>
            /\ Activated("Bucket") \/ Activated("Dir")
            /\ ~IsExistChildren(navigator, getCursorObject.Name)
            /\ Len(calls') = 1
            /\ calls'[1].fn = "ListObjects"
            /\ proc' = "running" =>
                  getCursorObject.Name \in DOMAIN nodes'[navigator].children
       /\ \A n \in NodeIds : \A k \in DOMAIN nodes[n].children :
            /\ k \in DOMAIN nodes'[n].children
            /\ nodes'[n].children[k] = nodes[n].children[k]]_vars

(* A cached Node below the root was entered again: the step was an          *)
(* activation without a call, and the cursor is on the PreDir row, where   *)
(* neither an activated Object nor an activated PreDir leaves it.          *)
C2_Witness ==
    /\ ev = "show"
    /\ calls = <<>>
    /\ proc = "running"
    /\ navigator # 1
    /\ HasCursorObject
    /\ getCursorObject.ObjType = "PreDir"

(* C3: the cursor index of the current Node is within its entries, and 0   *)
(* when there are none.                                                    *)
C3_CursorBounds ==
    IF Len(Entries) = 0 THEN Cursor = 0
    ELSE 0 <= Cursor /\ Cursor < Len(Entries)

(* C4: a reload that returns leaves the cursor index at the smaller of the  *)
(* old index and the last row of the new listing, or at 0 when the new     *)
(* listing is empty.                                                       *)
C4_ReloadClamps ==
    [][(InList /\ ev' = "reload" /\ proc' = "running") =>
          /\ navigator' = navigator
          /\ nodes'[navigator].position =
                (IF Len(nodes'[navigator].objects) = 0 THEN 0
                 ELSE Min(Cursor, Len(nodes'[navigator].objects) - 1))
          /\ listView'.cursor = nodes'[navigator].position]_vars

(* C5: the current Node is never nil, and at the root neither the go-back   *)
(* input nor an activated PreDir entry changes the Nodes, the current      *)
(* Node, the list or the mode.                                             *)
C5_RootGuard ==
    [][/\ navigator' # NilNode
       /\ (InList /\ IsRoot(navigator) /\ (ev' = "back" \/ Activated("PreDir"))) =>
             UNCHANGED <<nodes, navigator, bucket, listView, status, proc>>]_vars

(* Go-back was handled at a root that never had a child. *)
C5_Witness ==
    /\ ev = "back"
    /\ Len(nodes) = 1
    /\ navigator = 1
    /\ proc = "running"

(* C6: opening the menu, moving in it and cancelling it leave the Nodes,   *)
(* the current Node, its cursor and entries and the selected bucket as     *)
(* they were; the menu stays open while the user moves in it, and cancel   *)
(* returns to the List mode.                                               *)
C6_MenuFrame ==
    [][/\ (InList /\ ev' = "menu") => (status' = "Menu" /\ UNCHANGED nav)
       /\ (InMenu /\ ev' \in {"menuDown", "menuUp"}) =>
             (status' = "Menu" /\ UNCHANGED nav)
       /\ (InMenu /\ ev' = "menuCancel") => (status' = "List" /\ UNCHANGED nav)
       /\ (status = "Menu" /\ status' = "Menu") => UNCHANGED nav]_vars

(* The menu was cancelled with its third row highlighted, over a list whose *)
(* cursor is not on the first row.                                         *)
C6_Witness ==
    /\ status = "List"
    /\ ev = "menuCancel"
    /\ menuCursor = 2
    /\ listView.cursor > 0
    /\ Cursor = listView.cursor

(* The step invoked command cmd, from the list or from the menu. *)
Invoked(cmd) ==
    \/ InList /\ ev' = cmd
    \/ InMenu /\ ev' = "menuEnter" /\ getCursorItem = cmd

OnType(types) == HasCursorObject /\ getCursorObject.ObjType \in types

Contains(msg, part) ==
    \E i \in 1..Len(msg) : SubSeq(msg, i, i + Len(part) - 1) = part

(* The step called DownloadObject once, for this bucket and key. *)
FetchedOnce(b, k) ==
    /\ Len(calls') = 1
    /\ calls'[1].fn = "DownloadObject"
    /\ calls'[1].bucket = b
    /\ calls'[1].key = k

(* C7 as stated: download on an Object named key in bucket b calls         *)
(* DownloadObject exactly once with (b, key), and when that succeeds the   *)
(* status message contains s3://b/key.                                     *)
C7_DownloadLeaf ==
    [][(Invoked("download") /\ OnType({"Object"})) =>
          /\ FetchedOnce(bucket, getCursorObject.Name)
          /\ calls'[1].result = "ok" =>
                Contains(statusMsg', Path(bucket, getCursorObject.Name))]_vars

(* C7 as amended: the same, unless the local file cannot be created, in    *)
(* which case the process ends (log.Fatalf) without a call.                *)
C7_DownloadLeafCreated ==
    [][(Invoked("download") /\ OnType({"Object"})) =>
          \/ proc' = "fatal" /\ calls' = <<>> /\ statusMsg' = statusMsg
          \/ /\ FetchedOnce(bucket, getCursorObject.Name)
             /\ calls'[1].result = "ok" =>
                   /\ proc' = "running"
                   /\ Contains(statusMsg', Path(bucket, getCursorObject.Name))]_vars

(* A download of f in bucket a succeeded and is reported. *)
C7_Witness ==
    /\ ev = "download"
    /\ proc = "running"
    /\ calls = <<Call("DownloadObject", "a", "f", "ok")>>
    /\ statusMsg = <<"download complate. ", "s3://", "a", "/", "f">>

InvalidTypeMsg == <<"Invalid s3 object type">>

(* C8: download, open or edit from the list on a Bucket, Dir or PreDir      *)
(* entry calls nothing, reports the invalid type on the status line and    *)
(* leaves the mode, the current Node and the cursor as they were.          *)
C8_NonLeafRejected ==
    [][(InList /\ ev' \in {"download", "open", "edit"}
          /\ OnType({"Bucket", "Dir", "PreDir"})) =>
          /\ calls' = <<>>
          /\ statusMsg' = InvalidTypeMsg
          /\ status' = "List"
          /\ UNCHANGED nav]_vars

(* C9: download, open and edit, from the list or from the menu, on any      *)
(* entry and however they end, leave the Nodes (entries, cursor indexes,   *)
(* children), the current Node, the list and the selected bucket as they   *)
(* were; from the list the mode stays List.                                *)
C9_ActionFrame ==
    [][(Invoked("download") \/ Invoked("open") \/ Invoked("edit")) =>
          /\ UNCHANGED nav
          /\ UNCHANGED <<menuCursor, detailView>>
          /\ InList => status' = "List"]_vars

(* An edit succeeded below the root with the cursor on its Object row. *)
C9_Witness ==
    /\ ev \in {"edit", "menuEnter"}
    /\ proc = "running"
    /\ Len(statusMsg) > 0
    /\ statusMsg[1] = "edit. "
    /\ navigator # 1
    /\ listView.cursor > 0

(* The step made a call to the remote store that failed or timed out. *)
RemoteFailure ==
    \E i \in 1..Len(calls') :
        /\ calls'[i].fn \in {"ListObjects", "ListBuckets", "DownloadObject"}
        /\ calls'[i].result \in {"canceled", "failed"}

(* C10: a failed or timed-out call after the start does not end the         *)
(* process: the failure is reported on the status line, and the mode, the  *)
(* current Node and the cursor stay as they were.                          *)
C10_FailureNonFatal ==
    [][RemoteFailure =>
          /\ proc' = "running"
          /\ statusMsg' # statusMsg
          /\ status' = status
          /\ navigator' = navigator
          /\ listView'.cursor = listView.cursor]_vars

(* The step activated an uncached Bucket or Dir key and ListObjects failed. *)
FailedMiss ==
    /\ Activated("Bucket") \/ Activated("Dir")
    /\ ~IsExistChildren(navigator, getCursorObject.Name)
    /\ Len(calls') = 1
    /\ calls'[1].result \in {"canceled", "failed"}

(* C11: a descent into an uncached key whose listing fails or times out     *)
(* attaches no child and leaves the parent current, and the session goes   *)
(* on, so that the key can be activated again and listed again.            *)
C11_FailedMissRetry ==
    [][FailedMiss =>
          /\ nodes' = nodes
          /\ navigator' = navigator
          /\ listView' = listView
          /\ proc' = "running"
          /\ status' = "List"]_vars

(* How a command on the entry under the cursor ended: on a non-Object with *)
(* "invalid", on an Object with the result of its DownloadObject call;     *)
(* "local" when a local file or the viewer failed.                         *)
Outcome ==
    IF ~OnType({"Object"}) THEN "invalid"
    ELSE IF Len(calls') = 1 /\ calls'[1].result \in RemoteResults /\ proc' # "fatal"
         THEN calls'[1].result
         ELSE "local"

(* C12: activate in the menu runs the highlighted command on the entry      *)
(* under the list cursor, and the mode is List afterwards, whether the     *)
(* command succeeded, met an invalid entry type, or its call failed or     *)
(* timed out.                                                              *)
C12_MenuActivate ==
    [][(InMenu /\ ev' = "menuEnter" /\ HasCursorObject
          /\ Outcome \in {"ok", "invalid", "canceled", "failed"}) =>
          /\ status' = "List"
          /\ UNCHANGED nav
          /\ OnType({"Object"}) =>
                /\ calls'[1].fn = "DownloadObject"
                /\ calls'[1].bucket = bucket
                /\ calls'[1].key = getCursorObject.Name]_vars


(* The detail target of the entry under the cursor: its metadata and key. *)
DetailTarget ==
    /\ HasCursorObject
    /\ detailView.key = getCursorObject.Name
    /\ detailView.obj = Detail(bucket, getCursorObject.Name, "ok")

(* C13: whenever the mode is Detail, the metadata and key captured for the  *)
(* entry under the cursor are set, and no input handled in Detail mode     *)
(* makes a remote call or changes the current node or the cursor.          *)
C13_DetailTarget ==
    /\ []((status = "Detail" /\ proc = "running") => DetailTarget)
    /\ [][InDetail => (calls' = <<>> /\ UNCHANGED nav)]_vars


(* A step of the goroutine started by the quit branch. *)
Background == ev' = "go"

(* What the goroutine must leave alone: the tree and the session state. *)
session == <<nodes, navigator, bucket, listView, statusMsg, status,
             menuCursor, detailView>>

(* The parts of C14 that no schedule can break: only the goroutine raises  *)
(* the interrupt, Loop returns only on an interrupt, the goroutine's panic *)
(* is reached only while the process is alive, and the goroutine changes   *)
(* nothing of the tree or the session.                                     *)
QuitSafety ==
    [][/\ (interrupt' /\ ~interrupt) => (Background /\ quitter = "spawned")
       /\ (proc = "running" /\ proc' = "returned") => interrupt
       /\ (quitter' = "gone" /\ quitter # "gone") =>
             (Background /\ proc \in {"running", "returned"})
       /\ Background => UNCHANGED session]_vars

ScopeCall(res) ==
    LET parent == nodes[navigator].parent
    IN  IF parent = NilNode THEN Call("ListBuckets", "", "", res)
        ELSE IF nodes[parent].parent = NilNode
             THEN Call("ListObjects", bucket, "", res)
             ELSE Call("ListObjects", bucket, nodes[navigator].key, res)

(* C15: reload in List mode makes exactly one listing call, chosen by the  *)
(* place of the current Node (root: ListBuckets; bucket root: ListObjects  *)
(* of the bucket with the empty prefix; deeper: ListObjects of the bucket  *)
(* with the Node's key); only the current Node's objects are replaced, by  *)
(* the result; the current Node, its parent, its children and the mode     *)
(* stay as they were.                                                      *)
C15_ReloadScope ==
    [][(InList /\ ev' = "reload") =>
          /\ Len(calls') = 1
          /\ calls'[1] = ScopeCall(calls'[1].result)
          /\ navigator' = navigator
          /\ status' = status
          /\ Len(nodes') = Len(nodes)
          /\ \A n \in NodeIds :
                IF n = navigator
                THEN /\ nodes'[n] = [nodes[n] EXCEPT !.objects = nodes'[n].objects]
                     /\ listView'.objects = nodes'[n].objects
                     /\ calls'[1].result # "ok" => nodes'[n] = nodes[n]
                ELSE nodes'[n] = nodes[n]]_vars

C15_Witness ==
    /\ ev = "reload"
    /\ calls = <<Call("ListObjects", "a", "d/", "ok")>>
    /\ nodes[nodes[navigator].parent].parent # NilNode
    /\ DOMAIN nodes[nodes[navigator].parent].children # {}


(* The step was a descent from the current Node through a key that was not *)
(* cached, and its ListObjects call succeeded.                             *)
MissDescent(key) ==
    /\ Activated("Bucket") \/ Activated("Dir")
    /\ key = getCursorObject.Name
    /\ ~IsExistChildren(navigator, key)
    /\ Len(calls') = 1
    /\ calls'[1].fn = "ListObjects"
    /\ calls'[1].result = "ok"

(* C16: no step removes a key from a Node's children or binds a key to     *)
(* another Node, and a key is added only to the current Node, by a descent *)
(* through a key that was not cached.                                      *)
C16_ChildrenGrow ==
    [][/\ Len(nodes') >= Len(nodes)
       /\ \A n \in NodeIds : \A k \in DOMAIN nodes[n].children :
             /\ k \in DOMAIN nodes'[n].children
             /\ nodes'[n].children[k] = nodes[n].children[k]
       /\ \A n \in 1..Len(nodes') : \A k \in DOMAIN nodes'[n].children :
             (n \notin NodeIds \/ k \notin DOMAIN nodes[n].children) =>
                (n = navigator /\ MissDescent(k))]_vars

C16_Witness ==
    /\ ev = "reload"
    /\ calls[1].result = "ok"
    /\ DOMAIN nodes[navigator].children # {}
    /\ \E k \in DOMAIN nodes[navigator].children :
          \A i \in 1..Len(Entries) : Entries[i].Name # k


(* C17: each Node keeps its own cursor index: a Node's index changes only  *)
(* by a cursor move while it is the current Node, so leaving it and        *)
(* coming back by cache hit or ascend shows the index it was left with;    *)
(* the index shown is always the current Node's; a new child starts at 0.  *)
C17_CursorSurvives ==
    /\ [](navigator # NilNode => listView.cursor = Cursor)
    /\ [][/\ \A n \in NodeIds :
                nodes'[n].position # nodes[n].position =>
                   (n = navigator /\ InList /\ ev' \in {"down", "up"})
          /\ \A n \in 1..Len(nodes') :
                n \notin NodeIds => (nodes'[n].position = 0 /\ navigator' = n)]_vars

C17_Witness ==
    /\ ev = "show"
    /\ calls = <<>>
    /\ proc = "running"
    /\ navigator \notin {NilNode, 1}
    /\ listView.cursor > 0
    /\ getCursorObject.ObjType # "Object"


(* The step made a listing call. *)
Listed == \E i \in 1..Len(calls') : calls'[i].fn \in {"ListBuckets", "ListObjects"}

(* C18: the mode starts as List at the root; Menu and Detail are entered   *)
(* only from List and left only for List; the quit goroutine is started,   *)
(* the current Node changes and a listing is fetched only in List mode.    *)
C18_ModeGraph ==
    /\ status = "List" /\ navigator = 1 /\ IsRoot(navigator)
    /\ [][/\ status' # status =>
                \/ status = "List" /\ status' \in {"Menu", "Detail"}
                \/ status \in {"Menu", "Detail"} /\ status' = "List"
          /\ (\/ quitter = "none" /\ quitter' # "none"
              \/ navigator' # navigator
              \/ Len(nodes') # Len(nodes)
              \/ Listed) => status = "List"]_vars

C18_Witness == ev = "detailCancel" /\ status = "List" /\ navigator # 1


(* The ancestor of a non-root Node (or the Node itself) whose parent is    *)
(* the root: the Node of the bucket it lies in.                            *)
RECURSIVE BucketNode(_)
BucketNode(n) ==
    IF IsRoot(nodes[n].parent) THEN n ELSE BucketNode(nodes[n].parent)

Below == navigator # NilNode /\ ~IsRoot(navigator)

(* C19: whenever the current Node is not the root, bucket is the key of    *)
(* the current Node's ancestor under the root, so every call made from a   *)
(* Node below the root names the bucket that was descended into; bucket    *)
(* changes only when a Bucket entry is activated.                          *)
C19_BucketMatches ==
    /\ [](Below => bucket = nodes[BucketNode(navigator)].key)
    /\ [][/\ Below => \A i \in 1..Len(calls') :
                         calls'[i].bucket = nodes[BucketNode(navigator)].key
          /\ bucket' # bucket => Activated("Bucket")]_vars

C19_Witness ==
    /\ Below
    /\ bucket = "b"
    /\ nodes[BucketNode(navigator)].key = "b"
    /\ IsExistChildren(1, "a")
    /\ Len(calls) = 1


(* The number of parent links from a Node up to the root. *)
RECURSIVE Depth(_)
Depth(n) == IF IsRoot(n) THEN 0 ELSE 1 + Depth(nodes[n].parent)

(* C20: the listing of every Node below the root starts with the ".."      *)
(* entry; the root is the one Node of depth 0; a go-back below the root,   *)
(* or an activated "..", makes the parent current with no call, so from    *)
(* depth d exactly d of them reach the root.                               *)
C20_RootReachable ==
    /\ [](\A n \in NodeIds :
             /\ IsRoot(n) <=> n = 1
             /\ ~IsRoot(n) =>
                   /\ Len(nodes[n].objects) > 0
                   /\ nodes[n].objects[1].ObjType = "PreDir")
    /\ [][Ascended =>
             /\ calls' = <<>>
             /\ proc' = "running"
             /\ nodes' = nodes
             /\ navigator' = nodes[navigator].parent
             /\ Depth(navigator') = Depth(navigator) - 1]_vars

C20_Witness ==
    /\ ev = "back"
    /\ navigator \notin {NilNode, 1}
    /\ Depth(navigator) = 1
    /\ \E n \in NodeIds : Depth(n) > 1

====
